---------------------------- MODULE Spec2Model ----------------------------
(***************************************************************************)
(* Model of the column-mapping merge engine of excel-to-sheets-merger:     *)
(* merge_processor.py (normalize_column_names, find_column_fuzzy,          *)
(* merge_indeed_files, validate_indeed_files) driven by indeed_config.py.  *)
(*                                                                         *)
(* Text (column labels, text cells) is a sequence of one-character         *)
(* strings, so that lower(), strip() and replace() are computed character  *)
(* by character.  A cell is a record [k, n, s]: a number (k = "num"), a    *)
(* text (k = "str") or pandas' missing value NaN (k = "nan").              *)
(***************************************************************************)
EXTENDS Integers, Sequences, FiniteSets, TLC

VARIABLES
    \* ---- one Validate & Process run over three decoded tables ----
    xtm_df,         \* the XTM export as decoded (input of both functions)
    tos_df,         \* the TOS export as decoded
    edit_df,        \* the Edit Distance export as decoded
    xtm_df_norm,    \* merge_indeed_files: normalize_column_names(xtm_df)
    tos_df_norm,    \* merge_indeed_files: normalize_column_names(tos_df)
    edit_df_norm,   \* merge_indeed_files: normalize_column_names(edit_df)
    merged_df,      \* merge_indeed_files: the accumulated (joined) table
    result_df,      \* merge_indeed_files: the output table being built
    warnings,       \* validate_indeed_files: the list it returns
    pc,             \* position of the run
    profile,        \* merge_indeed_files: config["column_mapping"] in use
    processed_data, \* app: st.session_state.processed_data
    all_data,       \* sheets handler: the rows handed to worksheet.update
    \* ---- the session, which outlives a run ----
    xtm_data,       \* app: st.session_state.xtm_data
    tos_data,       \* app: st.session_state.tos_data
    edit_data,      \* app: st.session_state.edit_data
    validation_warnings, \* app: st.session_state.validation_warnings
    run,            \* how many times Validate & Process was clicked
    stored_by,      \* the run that last assigned each entry of the session
    \* ---- the label normalizer applied to one (column, target) pair ----
    column,         \* a raw column label of a one-column table
    target_column,  \* the desired label handed to the lookup
    norm_columns,   \* df.columns after normalize_column_names
    passed_target,  \* the label as the caller hands it to the lookup
    target_norm,    \* the target as find_column_fuzzy normalizes it
    actual_col,     \* what the lookup returned
    stage           \* position of the normalizer run

vars == <<xtm_df, tos_df, edit_df, xtm_df_norm, tos_df_norm, edit_df_norm,
          merged_df, result_df, warnings, pc, profile, processed_data, all_data,
          xtm_data, tos_data, edit_data, validation_warnings, run, stored_by,
          column, target_column, norm_columns, passed_target, target_norm,
          actual_col, stage>>

runVars  == <<xtm_df, tos_df, edit_df, xtm_df_norm, tos_df_norm, edit_df_norm,
              merged_df, result_df, warnings, pc, profile, processed_data,
              all_data, xtm_data, tos_data, edit_data, validation_warnings,
              run, stored_by>>
sessionVars == <<xtm_data, tos_data, edit_data, validation_warnings, run,
                 stored_by>>
normVars == <<column, target_column, norm_columns, passed_target, target_norm,
              actual_col, stage>>

-----------------------------------------------------------------------------
(* Bounds of the model.                                                    *)

\* longest raw column label drawn for the normalizer run
MaxLen == 4
\* longest desired label drawn for the normalizer run
MaxTargetLen == 3
\* most rows of an input table in the row-variety inputs
MaxRows == 2
\* most clicks on Validate & Process in one session
MaxRuns == 2

-----------------------------------------------------------------------------
(* Text: str.lower, str.strip, str.replace(' ', '_').                      *)

UpperCase == <<"A","B","C","D","E","F","G","H","I","J","K","L","M",
               "N","O","P","Q","R","S","T","U","V","W","X","Y","Z">>
LowerCase == <<"a","b","c","d","e","f","g","h","i","j","k","l","m",
               "n","o","p","q","r","s","t","u","v","w","x","y","z">>

\* the characters str.strip() removes (ASCII whitespace)
Whitespace == {" ", "\t", "\n", "\r", "\f"}

\* the lower-case letter of each upper-case letter
LowerOf ==
    [u \in {UpperCase[i] : i \in 1..Len(UpperCase)} |->
        LowerCase[CHOOSE i \in 1..Len(UpperCase) : UpperCase[i] = u]]

LowerChar(c) == IF c \in DOMAIN LowerOf THEN LowerOf[c] ELSE c

\* s.lower()
Lower(s) == [i \in 1..Len(s) |-> LowerChar(s[i])]

\* s.strip(): drop leading and trailing whitespace
Strip(s) ==
    IF \A i \in 1..Len(s) : s[i] \in Whitespace THEN <<>>
    ELSE LET lo == CHOOSE i \in 1..Len(s) :
                       /\ s[i] \notin Whitespace
                       /\ \A j \in 1..(i - 1) : s[j] \in Whitespace
             hi == CHOOSE i \in 1..Len(s) :
                       /\ s[i] \notin Whitespace
                       /\ \A j \in (i + 1)..Len(s) : s[j] \in Whitespace
         IN  SubSeq(s, lo, hi)

\* s.replace(' ', '_'): every single space becomes one underscore
ReplaceSpaces(s) == [i \in 1..Len(s) |-> IF s[i] = " " THEN "_" ELSE s[i]]

\* .lower().strip().replace(' ', '_') on one label (merge_processor.py:23, 37, 40)
NormalizeLabel(s) == ReplaceSpaces(Strip(Lower(s)))

\* the callers' .lower().replace(' ', '_') on a configured label (no strip)
PreNormalize(s) == ReplaceSpaces(Lower(s))

\* A header cell that holds a number is decoded as an integer label, not as
\* text: the tag "int" followed by its digits.  The .str methods of an Index
\* turn every element that is not text into the missing value NaN.
IntLabel(ds) == <<"int">> \o ds
NaNLabel == <<"nan">>
IsText(label) == label = <<>> \/ Head(label) \notin {"int", "nan"}

\* Index.str.lower().str.strip().str.replace(' ', '_') over df.columns
NormalizeColumns(cols) ==
    [i \in 1..Len(cols) |->
        IF IsText(cols[i]) THEN NormalizeLabel(cols[i]) ELSE NaNLabel]

\* df.columns.str raises AttributeError ("Can only use .str accessor with
\* string values") on an Index that holds no text at all
StrAccessorRaises(cols) ==
    cols # <<>> /\ \A i \in 1..Len(cols) : ~IsText(cols[i])

-----------------------------------------------------------------------------
(* find_column_fuzzy: the first column whose normalization equals the      *)
(* target's; None otherwise.                                               *)

None == [found |-> FALSE, col |-> <<>>]
Some(c) == [found |-> TRUE, col |-> c]

\* Python truthiness of the returned value: None and "" are both falsy
Truthy(r) == r.found /\ r.col # <<>>

find_column_fuzzy(cols, target) ==
    LET target_lower == NormalizeLabel(target)
        hits == {i \in 1..Len(cols) : NormalizeLabel(cols[i]) = target_lower}
    IN  IF hits = {} THEN None
        ELSE Some(cols[CHOOSE i \in hits : \A j \in hits : i <= j])

\* col.lower() raises AttributeError when the loop reaches a label that is
\* not text before it has returned a match
LookupRaises(cols, target) ==
    LET target_lower == NormalizeLabel(target)
    IN  \E i \in 1..Len(cols) :
            /\ ~IsText(cols[i])
            /\ \A j \in 1..(i - 1) : NormalizeLabel(cols[j]) # target_lower

-----------------------------------------------------------------------------
(* indeed_config.py: the Indeed_Standard profile.                          *)

Static(name, value) ==
    [name |-> name, type |-> "static", value |-> value, source |-> "",
     column |-> <<>>, formula |-> "", columns |-> <<>>]
Direct(name, source, col) ==
    [name |-> name, type |-> "direct", value |-> <<>>, source |-> source,
     column |-> col, formula |-> "", columns |-> <<>>]
Formula(name, formula, cols) ==
    [name |-> name, type |-> "formula", value |-> <<>>, source |-> "",
     column |-> <<>>, formula |-> formula, columns |-> cols]

\* config["column_mapping"], in definition (iteration) order
column_mapping ==
  <<
    Static("A_Status", <<"T", "r", "a", "n", "s", "l", "a", "t", "e", "d">>),
    Direct("B_Project_ID", "XTM",
           <<"P", "r", "o", "j", "e", "c", "t", " ", "I", "D">>),
    Direct("C_Project_Name", "XTM",
           <<"P", "r", "o", "j", "e", "c", "t", " ", "n", "a", "m", "e">>),
    Direct("D_Creation_Date", "XTM",
           <<"C", "r", "e", "a", "t", "i", "o", "n", " ", "d", "a", "t", "e">>),
    Direct("E_Due_Date", "XTM",
           <<"D", "u", "e", " ", "d", "a", "t", "e">>),
    Direct("F_Department", "XTM",
           <<"D", "e", "p", "a", "r", "t", "m", "e", "n", "t", "_", "I", "n", "d", "e", "e", "d">>),
    Direct("G_Team", "XTM",
           <<"T", "e", "a", "m", "_", "I", "n", "d", "e", "e", "d">>),
    Direct("H_Source_Language", "XTM",
           <<"S", "o", "u", "r", "c", "e", " ", "l", "a", "n", "g", "u", "a", "g", "e">>),
    Direct("I_Target_Language", "XTM",
           <<"T", "a", "r", "g", "e", "t", " ", "l", "a", "n", "g", "u", "a", "g", "e">>),
    Direct("J_Service_Type", "TOS",
           <<"s", "e", "r", "v", "i", "c", "e", "_", "t", "y", "p", "e">>),
    Direct("K_Requested_By", "TOS",
           <<"r", "e", "q", "u", "e", "s", "t", "e", "d", "_", "b", "y">>),
    Direct("L_Tags", "TOS",
           <<"t", "a", "g", "s">>),
    Direct("M_No_Match", "EDIT",
           <<"N", "o", " ", "m", "a", "t", "c", "h", " ", "(", "a", "f", "t", "e", "r", " ", "M", "T", "P", "E", " ", "d", "i", "s", "c", "o", "u", "n", "t", ")">>),
    Direct("N_50_74_Match", "EDIT",
           <<"5", "0", "%", "-", "7", "4", "%">>),
    Direct("O_75_84_Match", "EDIT",
           <<"7", "5", "%", "-", "8", "4", "%">>),
    Direct("P_85_94_Match", "EDIT",
           <<"8", "5", "%", "-", "9", "4", "%">>),
    Formula("Q_Total_Words", "sum_columns",
            <<"M_No_Match", "N_50_74_Match", "O_75_84_Match", "P_85_94_Match">>),
    Direct("R_95_99_Match", "EDIT",
           <<"9", "5", "%", "-", "9", "9", "%">>),
    Direct("S_100_Match", "EDIT",
           <<"1", "0", "0", "%">>),
    Direct("T_Repetitions", "EDIT",
           <<"R", "e", "p", "e", "t", "i", "t", "i", "o", "n", "s">>),
    Static("U_Field", <<>>),
    Static("V_Field", <<>>),
    Static("W_Field", <<>>),
    Static("X_Field", <<>>),
    Static("Y_Field", <<>>),
    Static("Z_Field", <<>>),
    Static("AA_Field", <<>>),
    Static("AB_Field", <<>>),
    Static("AC_Field", <<>>),
    Static("AD_Field", <<>>),
    Static("AE_Field", <<>>),
    Static("AF_Field", <<>>),
    Static("AG_Field", <<>>)
  >>

join_keys ==
  [xtm_tos  |-> [xtm_key |-> <<"P", "r", "o", "j", "e", "c", "t", " ", "I", "D">>,
                tos_key |-> <<"o", "r", "d", "e", "r", "_", "i", "d">>],
   xtm_edit |-> [xtm_key |-> <<"P", "r", "o", "j", "e", "c", "t", " ", "I", "D">>,
                edit_key |-> <<"P", "r", "o", "j", "e", "c", "t", " ", "I", "D">>]]

required_xtm_columns ==
  <<<<"P", "r", "o", "j", "e", "c", "t", " ", "I", "D">>,
    <<"P", "r", "o", "j", "e", "c", "t", " ", "n", "a", "m", "e">>,
    <<"D", "e", "p", "a", "r", "t", "m", "e", "n", "t", "_", "I", "n", "d", "e", "e", "d">>,
    <<"T", "e", "a", "m", "_", "I", "n", "d", "e", "e", "d">>>>
required_tos_columns ==
  <<<<"o", "r", "d", "e", "r", "_", "i", "d">>,
    <<"s", "e", "r", "v", "i", "c", "e", "_", "t", "y", "p", "e">>,
    <<"r", "e", "q", "u", "e", "s", "t", "e", "d", "_", "b", "y">>>>
required_edit_columns ==
  <<<<"N", "o", " ", "m", "a", "t", "c", "h", " ", "(", "a", "f", "t", "e", "r", " ", "M", "T", "P", "E", " ", "d", "i", "s", "c", "o", "u", "n", "t", ")">>>>

\* a name list out of step with the mapping: the first two names swapped
ColumnNamesSwapped ==
    [i \in 1..Len(column_mapping) |->
        column_mapping[IF i = 1 THEN 2 ELSE IF i = 2 THEN 1 ELSE i].name]

get_indeed_column_names ==
  <<"A_Status", "B_Project_ID", "C_Project_Name", "D_Creation_Date", "E_Due_Date", "F_Department", "G_Team", "H_Source_Language", "I_Target_Language", "J_Service_Type", "K_Requested_By", "L_Tags", "M_No_Match", "N_50_74_Match", "O_75_84_Match", "P_85_94_Match", "Q_Total_Words", "R_95_99_Match", "S_100_Match", "T_Repetitions", "U_Field", "V_Field", "W_Field", "X_Field", "Y_Field", "Z_Field", "AA_Field", "AB_Field", "AC_Field", "AD_Field", "AE_Field", "AF_Field", "AG_Field">>

-----------------------------------------------------------------------------
(* Cells and tables.                                                       *)

Num(n) == [k |-> "num", n |-> n, s |-> <<>>]
Str(s) == [k |-> "str", n |-> 0, s |-> s]
NaN    == [k |-> "nan", n |-> 0, s |-> <<>>]
\* the empty string ""
EmptyStr == Str(<<>>)

\* a DataFrame with a default RangeIndex: column labels and rows of cells
Table(cols, rows) == [columns |-> cols, rows |-> rows]

NRows(df) == Len(df.rows)

\* position of a column label in df.columns (the first, when two columns
\* carry the label)
ColIndex(df, c) ==
    CHOOSE i \in 1..Len(df.columns) :
        /\ df.columns[i] = c
        /\ \A j \in 1..(i - 1) : df.columns[j] # c

\* how many columns of df carry the label
LabelCount(df, c) == Cardinality({i \in 1..Len(df.columns) : df.columns[i] = c})

\* df[c]: the column as a Series
Series(df, c) == [r \in 1..NRows(df) |-> df.rows[r][ColIndex(df, c)]]

\* normalize_column_names(df): a copy with normalized labels, same rows
normalize_column_names(df) == Table(NormalizeColumns(df.columns), df.rows)

\* the caller's table after a call that assigned the labels to df itself
CallerTableRelabelled(df) == normalize_column_names(df)

\* the caller's table after normalize_column_names(df) has returned: the
\* function rebinds df to df.copy() before it assigns the labels
CallerTable(df) == df

\* normalize_column_names(df) raises instead of returning
NormalizeRaises(df) == StrAccessorRaises(df.columns)

-----------------------------------------------------------------------------
(* pandas.merge(left, right, left_on, right_on, how='left', suffixes).     *)

SeqToSet(q) == {q[i] : i \in 1..Len(q)}

RECURSIVE FlattenRows(_)
FlattenRows(groups) ==
    IF groups = <<>> THEN <<>>
    ELSE Head(groups) \o FlattenRows(Tail(groups))

\* the positions of q that satisfy Keep, in increasing order
RECURSIVE SelectIdx(_, _, _)
SelectIdx(n, i, keepSet) ==
    IF i > n THEN <<>>
    ELSE (IF i \in keepSet THEN <<i>> ELSE <<>>) \o SelectIdx(n, i + 1, keepSet)

\* how='inner' instead: only the left rows that have a match
LeftJoinRowsInner(left, right, li, ri, rkeep) ==
    FlattenRows([r \in 1..NRows(left) |->
        LET m == SelectIdx(NRows(right), 1,
                     {j \in 1..NRows(right) : right.rows[j][ri] = left.rows[r][li]})
        IN  [x \in 1..Len(m) |->
                left.rows[r] \o [y \in 1..Len(rkeep) |-> right.rows[m[x]][rkeep[y]]]]])

\* how='left': every left row in order; its matches in right order, or one
\* row whose right-hand cells are missing (NaN) when nothing matches
LeftJoinRows(left, right, li, ri, rkeep) ==
    FlattenRows([r \in 1..NRows(left) |->
        LET m == SelectIdx(NRows(right), 1,
                     {j \in 1..NRows(right) : right.rows[j][ri] = left.rows[r][li]})
        IN  IF m = <<>>
            THEN << left.rows[r] \o [y \in 1..Len(rkeep) |-> NaN] >>
            ELSE [x \in 1..Len(m) |->
                    left.rows[r] \o [y \in 1..Len(rkeep) |-> right.rows[m[x]][rkeep[y]]]]])

\* the labels of the joined table: the names found on both sides take the
\* side's suffix, the others are kept
MergeColumns(lcols, rcols, lsuffix, rsuffix) ==
    LET overlap == SeqToSet(lcols) \cap SeqToSet(rcols)
    IN  [i \in 1..Len(lcols) |->
            IF lcols[i] \in overlap THEN lcols[i] \o lsuffix ELSE lcols[i]]
        \o
        [i \in 1..Len(rcols) |->
            IF rcols[i] \in overlap THEN rcols[i] \o rsuffix ELSE rcols[i]]

\* pd.merge: a right-hand key column named like the left-hand key is dropped
\* (one key column remains); the joined table has a fresh RangeIndex
pd_merge(left, right, left_on, right_on, lsuffix, rsuffix) ==
    LET li    == ColIndex(left, left_on)
        ri    == ColIndex(right, right_on)
        rkeep == SelectIdx(Len(right.columns), 1,
                     {j \in 1..Len(right.columns) :
                         ~(left_on = right_on /\ j = ri)})
        rcols == [y \in 1..Len(rkeep) |-> right.columns[rkeep[y]]]
    IN  Table(MergeColumns(left.columns, rcols, lsuffix, rsuffix),
              LeftJoinRows(left, right, li, ri, rkeep))

\* The dtype pandas gives a key column and what lib.infer_dtype says of it:
\* numbers only (missing values allowed) is a numeric column, text only is an
\* object column inferred "string", text with missing values "mixed", numbers
\* and text together "mixed-integer".
InferDtype(cells) ==
    LET kinds == {cells[i].k : i \in 1..Len(cells)}
    IN  IF kinds = {} THEN "empty"
        ELSE IF "str" \notin kinds
        THEN (IF "nan" \in kinds THEN "floating" ELSE "integer")
        ELSE IF "num" \in kinds THEN "mixed-integer"
        ELSE IF "nan" \in kinds THEN "mixed"
        ELSE "string"

IsNumericDtype(cells) == InferDtype(cells) \in {"integer", "floating"}

\* _maybe_coerce_merge_keys: ValueError ("You are trying to merge on ... and
\* ... columns") when one key column is numeric, the other an object column,
\* and exactly one of them looks like text; an empty side is never checked
MergeKeysRaise(lk, rk) ==
    LET bool_types   == {"integer", "mixed-integer", "boolean", "empty"}
        string_types == {"string", "unicode", "mixed", "bytes", "empty"}
        inferred_left  == InferDtype(lk)
        inferred_right == InferDtype(rk)
    IN  /\ Len(lk) > 0 /\ Len(rk) > 0
        /\ IsNumericDtype(lk) # IsNumericDtype(rk)
        /\ ~(inferred_left \in bool_types /\ inferred_right \in bool_types)
        /\ \/ inferred_left \in string_types /\ inferred_right \notin string_types
           \/ inferred_right \in string_types /\ inferred_left \notin string_types

\* pd.merge raises: a key label carried by two columns of its table
\* ("The column label ... is not unique"), or key columns it refuses to compare
MergeRaises(left, right, left_on, right_on) ==
    \/ LabelCount(left, left_on) > 1
    \/ LabelCount(right, right_on) > 1
    \/ MergeKeysRaise(Series(left, left_on), Series(right, right_on))

SuffixXtm  == <<"_", "x", "t", "m">>
SuffixTos  == <<"_", "t", "o", "s">>
SuffixEdit == <<"_", "e", "d", "i", "t">>

-----------------------------------------------------------------------------
(* The output frame result_df: ordered column names, the length n of its   *)
(* index and the cells of each column.  It starts as pd.DataFrame(): no    *)
(* column and an empty index.                                              *)

EmptyFrame == [columns |-> <<>>, n |-> 0, data |-> <<>>]

HasColumn(df, name) == name \in SeqToSet(df.columns)

\* store the cells of a column, appending the name when it is new
PutColumn(df, name, cells) ==
    [columns |-> IF HasColumn(df, name) THEN df.columns
                 ELSE Append(df.columns, name),
     n       |-> df.n,
     data    |-> (name :> cells) @@ df.data]

\* result_df[name] = scalar: the scalar is broadcast over the frame's current
\* index, so on a frame whose index is still empty the column has no cell
SetScalar(df, name, v) == PutColumn(df, name, [i \in 1..df.n |-> v])

\* result_df[name] = series (same RangeIndex as every other series taken from
\* merged_df).  On a frame whose index is empty a non-empty series first gives
\* the frame its index: the columns already there are reindexed to NaN.
SetSeries(df, name, cells) ==
    IF df.n = 0 /\ Len(cells) > 0
    THEN PutColumn([columns |-> df.columns,
                    n       |-> Len(cells),
                    data    |-> [c \in DOMAIN df.data |->
                                    [i \in 1..Len(cells) |-> NaN]]],
                   name, cells)
    ELSE PutColumn(df, name, cells)

Digits == <<"0", "1", "2", "3", "4", "5", "6", "7", "8", "9">>
IsDigit(c) == \E d \in 1..Len(Digits) : Digits[d] = c
DigitVal(c) == (CHOOSE d \in 1..Len(Digits) : Digits[d] = c) - 1

RECURSIVE ParseDigits(_, _)
ParseDigits(s, acc) ==
    IF s = <<>> THEN acc
    ELSE ParseDigits(Tail(s), acc * 10 + DigitVal(Head(s)))

\* pd.to_numeric(..., errors='coerce') on one cell: a number stays, a text of
\* decimal digits parses, anything else (other text, "", missing) is NaN
ToNumeric(cell) ==
    IF cell.k = "num" THEN cell
    ELSE IF cell.k = "str" /\ cell.s # <<>> /\ \A i \in 1..Len(cell.s) : IsDigit(cell.s[i])
    THEN Num(ParseDigits(cell.s, 0))
    ELSE NaN

\* .fillna(v) on one cell
FillNa(cell, v) == IF cell.k = "nan" THEN v ELSE cell

\* result_df[col_name] += to_numeric(result_df[sum_col]).fillna(0), for each
\* sum_col in turn that is a column of result_df
RECURSIVE SumColumns(_, _, _)
SumColumns(df, name, cols) ==
    IF cols = <<>> THEN df
    ELSE IF HasColumn(df, Head(cols))
    THEN LET numeric_col == [i \in 1..df.n |->
                                FillNa(ToNumeric(df.data[Head(cols)][i]), Num(0))]
             total == [i \in 1..df.n |->
                          Num(df.data[name][i].n + numeric_col[i].n)]
         IN  SumColumns(SetSeries(df, name, total), name, Tail(cols))
    ELSE SumColumns(df, name, Tail(cols))

\* one iteration of the loop over column_mapping.items()
ProjectColumn(df, mapping, merged) ==
    IF mapping.type = "static"
    THEN SetScalar(df, mapping.name, Str(mapping.value))
    ELSE IF mapping.type = "direct"
    THEN LET source_col == PreNormalize(mapping.column)
             actual     == find_column_fuzzy(merged.columns, source_col)
         IN  IF Truthy(actual)
             THEN SetSeries(df, mapping.name, Series(merged, actual.col))
             ELSE SetScalar(df, mapping.name, EmptyStr)
    ELSE IF mapping.type = "formula" /\ mapping.formula = "sum_columns"
    THEN SumColumns(SetScalar(df, mapping.name, Num(0)), mapping.name,
                    mapping.columns)
    ELSE df

\* the loop over column_mapping.items(): each column is stored in the frame
\* (built.n is read) before the loop advances to the next mapping
RECURSIVE ProjectAll(_, _, _)
ProjectAll(df, mappings, merged) ==
    IF mappings = <<>> THEN df
    ELSE LET built == ProjectColumn(df, Head(mappings), merged)
         IN  IF built.n >= 0
             THEN ProjectAll(built, Tail(mappings), merged)
             ELSE built

\* Step 4: backfill every configured name that is no column yet with "",
\* one name after the other
RECURSIVE Backfill(_, _)
Backfill(df, names) ==
    IF names = <<>> THEN df
    ELSE LET filled == IF HasColumn(df, Head(names)) THEN df
                       ELSE SetScalar(df, Head(names), EmptyStr)
         IN  IF filled.n >= 0
             THEN Backfill(filled, Tail(names))
             ELSE filled

\* result_df[final_columns]: exactly these columns, in this order
Reorder(df, names) ==
    [columns |-> names, n |-> df.n,
     data |-> [c \in SeqToSet(names) |-> df.data[c]]]

\* a final step that leaves missing values as they are
FillFrameNone(df) == df

\* Step 5: result_df.fillna("")
FillFrame(df) ==
    [columns |-> df.columns, n |-> df.n,
     data |-> [c \in DOMAIN df.data |->
                  [i \in 1..df.n |-> FillNa(df.data[c][i], EmptyStr)]]]

-----------------------------------------------------------------------------
(* GoogleSheetsHandler._upload_dataframe_to_sheet(worksheet, df).          *)

\* the decimal digits of a natural number, as text
RECURSIVE DigitsOf(_)
DigitsOf(n) ==
    IF n < 10 THEN <<Digits[n + 1]>>
    ELSE DigitsOf(n \div 10) \o <<Digits[(n % 10) + 1]>>

\* astype(str) on one cell of df.fillna(''): a number becomes the text of
\* the number (the fractional part that a float column prints is left out)
AsStr(cell) ==
    IF cell.k = "num" THEN Str(DigitsOf(cell.n))
    ELSE IF cell.k = "nan" THEN EmptyStr
    ELSE cell

\* df.fillna('').astype(str).values.tolist(): the rows of df, every cell text
ValuesAsStr(df) ==
    [r \in 1..df.n |-> [j \in 1..Len(df.columns) |-> AsStr(df.data[df.columns[j]][r])]]

\* [headers] + values
AllData(df) == <<df.columns>> \o ValuesAsStr(df)

-----------------------------------------------------------------------------
(* The inputs of a run: three decoded tables.  A schema lists the column   *)
(* labels of an export and what each column holds: the join key, a text,   *)
(* or a word count.                                                        *)

\* column layouts of the XTM export that the runs draw from
XtmSchemas ==
    { <<>>,
      <<[label |-> <<"O", "t", "h", "e", "r">>,
       kind |-> "text"]>>,
      <<[label |-> <<"P", "r", "o", "j", "e", "c", "t", " ", "I", "D">>,
       kind |-> "key"],
      [label |-> <<"P", "r", "o", "j", "e", "c", "t", " ", "n", "a", "m", "e">>,
       kind |-> "text"]>>,
      <<[label |-> <<"p", "r", "o", "j", "e", "c", "t", "_", "i", "d">>,
       kind |-> "key"],
      [label |-> <<"t", "a", "g", "s">>,
       kind |-> "text"],
      [label |-> <<"1", "0", "0", "%">>,
       kind |-> "text"]>>,
      <<[label |-> <<" ", "P", "R", "O", "J", "E", "C", "T", " ", " ", "I", "D", " ">>,
       kind |-> "key"],
      [label |-> <<"P", "r", "o", "j", "e", "c", "t", " ", "n", "a", "m", "e">>,
       kind |-> "text"]>>,
      <<[label |-> <<"1", "0", "0", "%">>,
       kind |-> "text"]>>,
      <<[label |-> <<" ", "P", "R", "O", "J", "E", "C", "T", " ", "I", "D", " ">>,
       kind |-> "key"],
      [label |-> <<"1", "0", "0", "%">>,
       kind |-> "text"]>> }

\* column layouts of the TOS export
TosSchemas ==
    { <<>>,
      <<[label |-> <<"o", "r", "d", "e", "r", "_", "i", "d">>,
       kind |-> "key"],
      [label |-> <<"s", "e", "r", "v", "i", "c", "e", "_", "t", "y", "p", "e">>,
       kind |-> "text"],
      [label |-> <<"t", "a", "g", "s">>,
       kind |-> "text"]>>,
      <<[label |-> <<"O", "r", "d", "e", "r", " ", "I", "D">>,
       kind |-> "key"],
      [label |-> <<"r", "e", "q", "u", "e", "s", "t", "e", "d", "_", "b", "y">>,
       kind |-> "text"]>>,
      <<[label |-> <<"s", "e", "r", "v", "i", "c", "e", "_", "t", "y", "p", "e">>,
       kind |-> "text"]>> }

\* column layouts of the Edit Distance export
EditSchemas ==
    { <<>>,
      <<[label |-> <<"P", "r", "o", "j", "e", "c", "t", " ", "I", "D">>,
       kind |-> "key"],
      [label |-> <<"N", "o", " ", "m", "a", "t", "c", "h", " ", "(", "a", "f", "t", "e", "r", " ", "M", "T", "P", "E", " ", "d", "i", "s", "c", "o", "u", "n", "t", ")">>,
       kind |-> "num"],
      [label |-> <<"5", "0", "%", "-", "7", "4", "%">>,
       kind |-> "num"],
      [label |-> <<"7", "5", "%", "-", "8", "4", "%">>,
       kind |-> "num"]>>,
      <<[label |-> <<"p", "r", "o", "j", "e", "c", "t", " ", "i", "d">>,
       kind |-> "key"],
      [label |-> <<"8", "5", "%", "-", "9", "4", "%">>,
       kind |-> "num"],
      [label |-> <<"1", "0", "0", "%">>,
       kind |-> "num"]>>,
      <<[label |-> <<"1", "0", "0", "%">>,
       kind |-> "num"],
      [label |-> <<"R", "e", "p", "e", "t", "i", "t", "i", "o", "n", "s">>,
       kind |-> "num"]>> }

\* the layouts that carry every key and several mapped columns
XtmFull ==
    <<[label |-> <<"P", "r", "o", "j", "e", "c", "t", " ", "I", "D">>,
      kind |-> "key"],
     [label |-> <<"P", "r", "o", "j", "e", "c", "t", " ", "n", "a", "m", "e">>,
      kind |-> "text"]>>
TosFull ==
    <<[label |-> <<"o", "r", "d", "e", "r", "_", "i", "d">>,
      kind |-> "key"],
     [label |-> <<"s", "e", "r", "v", "i", "c", "e", "_", "t", "y", "p", "e">>,
      kind |-> "text"],
     [label |-> <<"t", "a", "g", "s">>,
      kind |-> "text"]>>
EditFull ==
    <<[label |-> <<"P", "r", "o", "j", "e", "c", "t", " ", "I", "D">>,
      kind |-> "key"],
     [label |-> <<"N", "o", " ", "m", "a", "t", "c", "h", " ", "(", "a", "f", "t", "e", "r", " ", "M", "T", "P", "E", " ", "d", "i", "s", "c", "o", "u", "n", "t", ")">>,
      kind |-> "num"],
     [label |-> <<"5", "0", "%", "-", "7", "4", "%">>,
      kind |-> "num"],
     [label |-> <<"7", "5", "%", "-", "8", "4", "%">>,
      kind |-> "num"]>>

\* layouts with a header that is a number, layouts in which two labels
\* normalize to the same label, and an Edit Distance layout with a column
\* that the configuration expects in XTM
XtmOddSchemas ==
    { <<[label |-> IntLabel(<<"7">>),
       kind |-> "text"]>>,
      <<[label |-> <<"P", "r", "o", "j", "e", "c", "t", " ", "I", "D">>,
       kind |-> "key"],
      [label |-> IntLabel(<<"7">>),
       kind |-> "text"]>>,
      <<[label |-> <<"P", "r", "o", "j", "e", "c", "t", " ", "I", "D">>,
       kind |-> "key"],
      [label |-> <<"P", "r", "o", "j", "e", "c", "t", " ", "n", "a", "m", "e">>,
       kind |-> "text"],
      [label |-> <<"p", "r", "o", "j", "e", "c", "t", "_", "n", "a", "m", "e">>,
       kind |-> "text"]>>,
      <<[label |-> <<"P", "r", "o", "j", "e", "c", "t", " ", "I", "D">>,
       kind |-> "key"],
      [label |-> <<"p", "r", "o", "j", "e", "c", "t", " ", "i", "d">>,
       kind |-> "text"]>> }
TosOddSchemas ==
    { <<[label |-> <<"o", "r", "d", "e", "r", "_", "i", "d">>,
       kind |-> "key"],
      [label |-> <<"s", "e", "r", "v", "i", "c", "e", "_", "t", "y", "p", "e">>,
       kind |-> "text"],
      [label |-> <<"r", "e", "q", "u", "e", "s", "t", "e", "d", "_", "b", "y">>,
       kind |-> "text"],
      [label |-> IntLabel(<<"7">>),
       kind |-> "text"]>> }
EditOddSchemas ==
    { <<[label |-> <<"P", "r", "o", "j", "e", "c", "t", " ", "I", "D">>,
       kind |-> "key"],
      [label |-> <<"N", "o", " ", "m", "a", "t", "c", "h", " ", "(", "a", "f", "t", "e", "r", " ", "M", "T", "P", "E", " ", "d", "i", "s", "c", "o", "u", "n", "t", ")">>,
       kind |-> "num"],
      [label |-> <<"R", "e", "p", "e", "t", "i", "t", "i", "o", "n", "s">>,
       kind |-> "num"],
      [label |-> <<"r", "e", "p", "e", "t", "i", "t", "i", "o", "n", "s">>,
       kind |-> "num"]>>,
      <<[label |-> <<"P", "r", "o", "j", "e", "c", "t", " ", "I", "D">>,
       kind |-> "key"],
      [label |-> <<"N", "o", " ", "m", "a", "t", "c", "h", " ", "(", "a", "f", "t", "e", "r", " ", "M", "T", "P", "E", " ", "d", "i", "s", "c", "o", "u", "n", "t", ")">>,
       kind |-> "num"],
      [label |-> <<"D", "e", "p", "a", "r", "t", "m", "e", "n", "t", "_", "I", "n", "d", "e", "e", "d">>,
       kind |-> "text"]>> }

\* key values of the rows
Keys == { <<"P", "1">>, <<"P", "2">> }

\* what a word-count cell may hold: numbers, a non-numeric text, a missing
\* value, a text of digits
NumVals == << Num(2), Num(3), Str(<<"x">>), NaN, Str(<<"4", "0">>) >>

\* all sequences over S of length at most n
SeqsUpTo(S, n) == UNION { [1..k -> S] : k \in 0..n }

\* the table of a layout: one row per key cell; a text cell names its table,
\* column and row, a word-count cell cycles through NumVals from offset pat
MkTableOf(tag, schema, cells, pat) ==
    Table([j \in 1..Len(schema) |-> schema[j].label],
          IF schema = <<>> THEN <<>>
          ELSE [r \in 1..Len(cells) |->
                  [j \in 1..Len(schema) |->
                      IF schema[j].kind = "key" THEN cells[r]
                      ELSE IF schema[j].kind = "text"
                      THEN Str(<<tag, Digits[j + 1], Digits[r + 1]>>)
                      ELSE NumVals[((pat + r + j) % Len(NumVals)) + 1]]])

\* the same with text keys
MkTable(tag, schema, keys, pat) ==
    MkTableOf(tag, schema, [r \in 1..Len(keys) |-> Str(keys[r])], pat)

\* a key cell decoded as the number 1 and one decoded as the text "1"
KeyCells == { Num(1), Str(<<"1">>) }

-----------------------------------------------------------------------------
(* validate_indeed_files.                                                  *)

Warning(kind, file, col, a, b) ==
    [kind |-> kind, file |-> file, col |-> col, a |-> a, b |-> b]

\* "<file> file may be missing expected column: '<col>' (will use empty values)"
MissingColumn(file, col) == Warning("missing_column", file, col, 0, 0)
\* "<file> file appears to be empty"
EmptyFile(file) == Warning("empty", file, <<>>, 0, 0)
\* "Row count mismatch: XTM has <a> rows, <file> has <b> rows"
RowMismatch(file, a, b) == Warning("row_mismatch", file, <<>>, a, b)
\* "<file> join key '<col>' not found - rows may not align properly"
JoinKeyNotFound(file, col) == Warning("join_key", file, col, 0, 0)

\* df.empty: no row or no column
IsEmpty(df) == NRows(df) = 0 \/ Len(df.columns) = 0

\* one loop over a required_*_columns list
CheckRequired(file, required, norm) ==
    SelectSeq([i \in 1..Len(required) |-> MissingColumn(file, required[i])],
              LAMBDA w : ~Truthy(find_column_fuzzy(norm.columns, PreNormalize(w.col))))

\* the join-key check: the xtm_tos pair only
CheckJoinKeys(xtm_norm, tos_norm) ==
    IF "xtm_tos" \in DOMAIN join_keys
    THEN LET xtm_key == PreNormalize(join_keys.xtm_tos.xtm_key)
             tos_key == PreNormalize(join_keys.xtm_tos.tos_key)
             xtm_col == find_column_fuzzy(xtm_norm.columns, xtm_key)
             tos_col == find_column_fuzzy(tos_norm.columns, tos_key)
         IN  (IF ~Truthy(xtm_col)
              THEN <<JoinKeyNotFound("XTM", join_keys.xtm_tos.xtm_key)>> ELSE <<>>)
             \o
             (IF ~Truthy(tos_col)
              THEN <<JoinKeyNotFound("TOS", join_keys.xtm_tos.tos_key)>> ELSE <<>>)
    ELSE <<>>

\* a validator that returns as soon as one check has produced warnings
validate_short_circuit(x, t, e) ==
    LET xtm_norm  == normalize_column_names(x)
        tos_norm  == normalize_column_names(t)
        edit_norm == normalize_column_names(e)
        checks == << CheckRequired("XTM", required_xtm_columns, xtm_norm),
                     CheckRequired("TOS", required_tos_columns, tos_norm),
                     CheckRequired("Edit Distance", required_edit_columns, edit_norm),
                     IF IsEmpty(x) THEN <<EmptyFile("XTM")>> ELSE <<>>,
                     IF IsEmpty(t) THEN <<EmptyFile("TOS")>> ELSE <<>>,
                     IF IsEmpty(e) THEN <<EmptyFile("Edit Distance")>> ELSE <<>>,
                     IF NRows(x) # NRows(t)
                     THEN <<RowMismatch("TOS", NRows(x), NRows(t))>> ELSE <<>>,
                     IF NRows(x) # NRows(e)
                     THEN <<RowMismatch("Edit Distance", NRows(x), NRows(e))>>
                     ELSE <<>>,
                     CheckJoinKeys(xtm_norm, tos_norm) >>
        hit == {i \in 1..Len(checks) : checks[i] # <<>>}
    IN  IF hit = {} THEN <<>>
        ELSE checks[CHOOSE i \in hit : \A j \in hit : i <= j]

validate_indeed_files(x, t, e) ==
    LET xtm_norm  == normalize_column_names(x)
        tos_norm  == normalize_column_names(t)
        edit_norm == normalize_column_names(e)
    IN  CheckRequired("XTM", required_xtm_columns, xtm_norm)
        \o CheckRequired("TOS", required_tos_columns, tos_norm)
        \o CheckRequired("Edit Distance", required_edit_columns, edit_norm)
        \o (IF IsEmpty(x) THEN <<EmptyFile("XTM")>> ELSE <<>>)
        \o (IF IsEmpty(t) THEN <<EmptyFile("TOS")>> ELSE <<>>)
        \o (IF IsEmpty(e) THEN <<EmptyFile("Edit Distance")>> ELSE <<>>)
        \o (IF NRows(x) # NRows(t)
            THEN <<RowMismatch("TOS", NRows(x), NRows(t))>> ELSE <<>>)
        \o (IF NRows(x) # NRows(e)
            THEN <<RowMismatch("Edit Distance", NRows(x), NRows(e))>> ELSE <<>>)
        \o CheckJoinKeys(xtm_norm, tos_norm)

\* validate_indeed_files raises instead of returning: in one of the three
\* normalize_column_names calls or in one of its lookups
ValidateRaises(x, t, e) ==
    \/ NormalizeRaises(x) \/ NormalizeRaises(t) \/ NormalizeRaises(e)
    \/ LET xtm_norm  == normalize_column_names(x)
           tos_norm  == normalize_column_names(t)
           edit_norm == normalize_column_names(e)
           raises(norm, required) ==
               \E i \in 1..Len(required) :
                   LookupRaises(norm.columns, PreNormalize(required[i]))
       IN  \/ raises(xtm_norm, required_xtm_columns)
           \/ raises(tos_norm, required_tos_columns)
           \/ raises(edit_norm, required_edit_columns)
           \/ /\ "xtm_tos" \in DOMAIN join_keys
              /\ raises(xtm_norm, <<join_keys.xtm_tos.xtm_key>>)
                   \/ raises(tos_norm, <<join_keys.xtm_tos.tos_key>>)

-----------------------------------------------------------------------------
(* merge_indeed_files, step by step.                                       *)

\* one join step: resolve both key columns, left-join when both resolve,
\* otherwise leave the accumulated table as it is
JoinStep(acc, sec, acc_key, sec_key, lsuffix, rsuffix) ==
    LET acc_col == find_column_fuzzy(acc.columns, PreNormalize(acc_key))
        sec_col == find_column_fuzzy(sec.columns, PreNormalize(sec_key))
    IN  IF Truthy(acc_col) /\ Truthy(sec_col)
        THEN pd_merge(acc, sec, acc_col.col, sec_col.col, lsuffix, rsuffix)
        ELSE acc

\* the join step raises instead of finishing: in a lookup or in pd.merge
JoinRaises(acc, sec, acc_key, sec_key) ==
    LET acc_col == find_column_fuzzy(acc.columns, PreNormalize(acc_key))
        sec_col == find_column_fuzzy(sec.columns, PreNormalize(sec_key))
    IN  \/ LookupRaises(acc.columns, PreNormalize(acc_key))
        \/ LookupRaises(sec.columns, PreNormalize(sec_key))
        \/ /\ Truthy(acc_col) /\ Truthy(sec_col)
           /\ MergeRaises(acc, sec, acc_col.col, sec_col.col)

\* the loop over column_mapping raises: in a lookup, or at
\* result_df[col_name] = merged_df[actual_col] when two columns of merged_df
\* carry the label (the right-hand side is then a two-column DataFrame)
ProjectRaises(mappings, merged) ==
    \E i \in 1..Len(mappings) :
        /\ mappings[i].type = "direct"
        /\ LET source_col == PreNormalize(mappings[i].column)
               actual     == find_column_fuzzy(merged.columns, source_col)
           IN  \/ LookupRaises(merged.columns, source_col)
               \/ Truthy(actual) /\ LabelCount(merged, actual.col) > 1

EmptyTable == Table(<<>>, <<>>)

\* st.session_state.processed_data: None until a merge result is stored
NoData == [stored |-> FALSE, frame |-> EmptyFrame]
Stored(df) == [stored |-> TRUE, frame |-> df]

\* st.session_state.xtm_data, tos_data, edit_data: None until a run has
\* decoded its three files
NoTable == [stored |-> FALSE, table |-> EmptyTable]
StoredTable(df) == [stored |-> TRUE, table |-> df]

\* no run has assigned an entry of the session yet
NoRun == [processed_data |-> 0, raw |-> 0, validation_warnings |-> 0]

\* the app calls validate_indeed_files on the decoded tables first; an
\* exception ends the handler in its except branch
Validate ==
    /\ pc = "decoded"
    /\ IF ValidateRaises(xtm_df, tos_df, edit_df)
       THEN /\ pc' = "validate_raised"
            /\ UNCHANGED <<warnings, xtm_df, tos_df, edit_df,
                           validation_warnings, stored_by>>
       ELSE /\ warnings' = validate_indeed_files(xtm_df, tos_df, edit_df)
            /\ validation_warnings' = warnings'
            /\ stored_by' = [stored_by EXCEPT !.validation_warnings = run]
            /\ xtm_df' = CallerTable(xtm_df)
            /\ tos_df' = CallerTable(tos_df)
            /\ edit_df' = CallerTable(edit_df)
            /\ pc' = "validated"
    /\ UNCHANGED <<xtm_df_norm, tos_df_norm, edit_df_norm, merged_df,
                   result_df, profile, processed_data, all_data>>
    /\ UNCHANGED <<xtm_data, tos_data, edit_data, run>>
    /\ UNCHANGED normVars

\* merge_indeed_files: normalized copies; merged_df starts as the XTM copy
NormalizeInputs ==
    /\ pc = "validated"
    /\ IF NormalizeRaises(xtm_df) \/ NormalizeRaises(tos_df)
          \/ NormalizeRaises(edit_df)
       THEN /\ pc' = "merge_raised"
            /\ UNCHANGED <<xtm_df_norm, tos_df_norm, edit_df_norm, merged_df,
                           xtm_df, tos_df, edit_df>>
       ELSE /\ xtm_df_norm' = normalize_column_names(xtm_df)
            /\ tos_df_norm' = normalize_column_names(tos_df)
            /\ edit_df_norm' = normalize_column_names(edit_df)
            /\ xtm_df' = CallerTable(xtm_df)
            /\ tos_df' = CallerTable(tos_df)
            /\ edit_df' = CallerTable(edit_df)
            /\ merged_df' = xtm_df_norm'
            /\ pc' = "normalized"
    /\ UNCHANGED <<result_df, warnings, profile, processed_data, all_data>>
    /\ UNCHANGED sessionVars
    /\ UNCHANGED normVars

\* Step 1: XTM left-joined with TOS
JoinTOS ==
    /\ pc = "normalized"
    /\ IF "xtm_tos" \in DOMAIN join_keys
       THEN IF JoinRaises(xtm_df_norm, tos_df_norm, join_keys.xtm_tos.xtm_key,
                          join_keys.xtm_tos.tos_key)
            THEN pc' = "merge_raised" /\ UNCHANGED merged_df
            ELSE /\ merged_df' =
                       JoinStep(xtm_df_norm, tos_df_norm,
                                join_keys.xtm_tos.xtm_key,
                                join_keys.xtm_tos.tos_key, SuffixXtm, SuffixTos)
                 /\ pc' = "joined_tos"
       ELSE pc' = "joined_tos" /\ UNCHANGED merged_df
    /\ UNCHANGED <<xtm_df, tos_df, edit_df, xtm_df_norm, tos_df_norm,
                   edit_df_norm, result_df, warnings, profile,
                   processed_data, all_data>>
    /\ UNCHANGED sessionVars
    /\ UNCHANGED normVars

\* Step 2: the accumulated table left-joined with Edit Distance
JoinEDIT ==
    /\ pc = "joined_tos"
    /\ IF "xtm_edit" \in DOMAIN join_keys
       THEN IF JoinRaises(merged_df, edit_df_norm, join_keys.xtm_edit.xtm_key,
                          join_keys.xtm_edit.edit_key)
            THEN pc' = "merge_raised" /\ UNCHANGED merged_df
            ELSE /\ merged_df' =
                       JoinStep(merged_df, edit_df_norm,
                                join_keys.xtm_edit.xtm_key,
                                join_keys.xtm_edit.edit_key, <<>>, SuffixEdit)
                 /\ pc' = "joined_edit"
       ELSE pc' = "joined_edit" /\ UNCHANGED merged_df
    /\ UNCHANGED <<xtm_df, tos_df, edit_df, xtm_df_norm, tos_df_norm,
                   edit_df_norm, result_df, warnings, profile,
                   processed_data, all_data>>
    /\ UNCHANGED sessionVars
    /\ UNCHANGED normVars

\* Step 3: the loop over column_mapping
Project ==
    /\ pc = "joined_edit"
    /\ IF ProjectRaises(profile, merged_df)
       THEN pc' = "merge_raised" /\ UNCHANGED result_df
       ELSE /\ result_df' = ProjectAll(EmptyFrame, profile, merged_df)
            /\ pc' = "projected"
    /\ UNCHANGED <<xtm_df, tos_df, edit_df, xtm_df_norm, tos_df_norm,
                   edit_df_norm, merged_df, warnings, profile,
                   processed_data, all_data>>
    /\ UNCHANGED sessionVars
    /\ UNCHANGED normVars

\* Steps 4 and 5: backfill, reorder, fillna(""), return; the app stores the
\* returned table in its session state
Finish ==
    /\ pc = "projected"
    /\ result_df' = FillFrame(Reorder(Backfill(result_df, get_indeed_column_names),
                                      get_indeed_column_names))
    /\ processed_data' = Stored(result_df')
    /\ stored_by' = [stored_by EXCEPT !.processed_data = run]
    /\ pc' = "done"
    /\ UNCHANGED <<xtm_df, tos_df, edit_df, xtm_df_norm, tos_df_norm,
                   edit_df_norm, merged_df, warnings, profile, all_data>>
    /\ UNCHANGED <<xtm_data, tos_data, edit_data, validation_warnings, run>>
    /\ UNCHANGED normVars

\* the handler of Validate & Process has returned: it stored the merged
\* table, or a call raised and the except clause reported the error
HandlerReturned ==
    pc \in {"done", "validate_raised", "merge_raised", "decode_raised"}

\* the export, offered while processed_data is not None: the stored table
\* is uploaded to the Merged_Report worksheet;
\* worksheet.update receives all_data when it has a row and a column
Upload ==
    /\ HandlerReturned
    /\ processed_data.stored
    /\ LET rows == AllData(processed_data.frame)
       IN  IF Len(rows) > 0 /\ Len(processed_data.frame.columns) > 0
           THEN all_data' = rows
           ELSE UNCHANGED all_data
    /\ pc' = "uploaded"
    /\ UNCHANGED <<xtm_df, tos_df, edit_df, xtm_df_norm, tos_df_norm,
                   edit_df_norm, merged_df, result_df, warnings, profile,
                   processed_data>>
    /\ UNCHANGED sessionVars
    /\ UNCHANGED normVars

-----------------------------------------------------------------------------
(* The normalizer applied to one raw column label and one desired label.   *)

ColumnAlphabet == {"A", "a", " ", "_"}
TargetAlphabet == {"A", " "}

\* normalize_column_names on a table whose only column is the raw label
NormalizeColumnNames ==
    /\ stage = "input"
    /\ norm_columns' = normalize_column_names(Table(<<column>>, <<>>)).columns
    /\ stage' = "normalized"
    /\ UNCHANGED <<column, target_column, passed_target, target_norm, actual_col>>
    /\ UNCHANGED runVars

\* find_column_fuzzy(df, target_column) called with the label as written
LookupDirect ==
    /\ stage = "normalized"
    /\ passed_target' = target_column
    /\ target_norm' = NormalizeLabel(passed_target')
    /\ actual_col' = find_column_fuzzy(norm_columns, passed_target')
    /\ stage' = "resolved"
    /\ UNCHANGED <<column, target_column, norm_columns>>
    /\ UNCHANGED runVars

\* the lookup as merge_indeed_files and validate_indeed_files call it: the
\* label goes through .lower().replace(' ', '_') first
LookupViaCaller ==
    /\ stage = "normalized"
    /\ passed_target' = PreNormalize(target_column)
    /\ target_norm' = NormalizeLabel(passed_target')
    /\ actual_col' = find_column_fuzzy(norm_columns, passed_target')
    /\ stage' = "resolved_via_caller"
    /\ UNCHANGED <<column, target_column, norm_columns>>
    /\ UNCHANGED runVars

-----------------------------------------------------------------------------
(* Specifications.                                                         *)

RunIdle ==
    /\ xtm_df = EmptyTable /\ tos_df = EmptyTable /\ edit_df = EmptyTable
    /\ xtm_df_norm = EmptyTable /\ tos_df_norm = EmptyTable
    /\ edit_df_norm = EmptyTable /\ merged_df = EmptyTable
    /\ result_df = EmptyFrame /\ warnings = <<>> /\ pc = "idle"
    /\ profile = column_mapping /\ processed_data = NoData /\ all_data = <<>>
    /\ xtm_data = NoTable /\ tos_data = NoTable /\ edit_data = NoTable
    /\ validation_warnings = <<>> /\ run = 0 /\ stored_by = NoRun

NormIdle ==
    /\ column = <<>> /\ target_column = <<>> /\ norm_columns = <<>>
    /\ passed_target = <<>> /\ target_norm = <<>> /\ actual_col = None
    /\ stage = "idle"

\* the first click: three decoded tables, stored in the session, nothing
\* computed yet
Decoded(x, t, e) ==
    /\ xtm_df = x /\ tos_df = t /\ edit_df = e
    /\ xtm_df_norm = EmptyTable /\ tos_df_norm = EmptyTable
    /\ edit_df_norm = EmptyTable /\ merged_df = EmptyTable
    /\ result_df = EmptyFrame /\ warnings = <<>> /\ pc = "decoded"
    /\ profile = column_mapping /\ processed_data = NoData /\ all_data = <<>>
    /\ xtm_data = StoredTable(x) /\ tos_data = StoredTable(t)
    /\ edit_data = StoredTable(e)
    /\ validation_warnings = <<>> /\ run = 1
    /\ stored_by = [NoRun EXCEPT !.raw = 1]

\* every combination of layouts, with a few row sets and every offset of the
\* word-count cells
InitLayouts ==
    \E xs \in XtmSchemas, ts \in TosSchemas, es \in EditSchemas :
    \E xk \in { <<>>, << <<"P", "1">> >>, << <<"P", "1">>, <<"P", "2">> >> } :
    \E tk \in { << <<"P", "1">>, <<"P", "1">> >>, << <<"P", "3">> >> } :
    \E pat \in 0..(Len(NumVals) - 1) :
        Decoded(MkTable("x", xs, xk, pat),
                MkTable("t", ts, tk, pat),
                MkTable("e", es, << <<"P", "1">> >>, pat))

\* the full layouts, with every row set up to MaxRows
InitRows ==
    \E xk \in SeqsUpTo(Keys, MaxRows), tk \in SeqsUpTo(Keys, MaxRows),
       ek \in SeqsUpTo(Keys, MaxRows) :
        Decoded(MkTable("x", XtmFull, xk, 2),
                MkTable("t", TosFull, tk, 2),
                MkTable("e", EditFull, ek, 2))

\* the full layouts, with key columns that hold numbers, text or both
InitKeyTypes ==
    \E xc \in SeqsUpTo(KeyCells, MaxRows), tc \in SeqsUpTo(KeyCells, MaxRows),
       ec \in {<<c>> : c \in KeyCells} :
        Decoded(MkTableOf("x", XtmFull, xc, 2),
                MkTableOf("t", TosFull, tc, 2),
                MkTableOf("e", EditFull, ec, 2))

\* the layouts with numeric headers or with labels that normalize alike,
\* each beside the full layouts of the other tables
InitOdd ==
    \E xs \in XtmOddSchemas \cup {XtmFull}, ts \in TosOddSchemas \cup {TosFull},
       es \in EditOddSchemas \cup {EditFull} :
    \E xk \in { << <<"P", "1">> >>, << <<"P", "1">>, <<"P", "2">> >> } :
        Decoded(MkTable("x", xs, xk, 2),
                MkTable("t", ts, << <<"P", "1">>, <<"P", "1">> >>, 2),
                MkTable("e", es, << <<"P", "1">> >>, 2))

Init == (InitLayouts \/ InitRows \/ InitKeyTypes \/ InitOdd) /\ NormIdle

Next ==
    Validate \/ NormalizeInputs \/ JoinTOS \/ JoinEDIT \/ Project \/ Finish
        \/ Upload

Spec == Init /\ [][Next]_vars

\* Configurations other than the shipped one, as get_indeed_merge_config
\* could return them: the derived sum listed before its addends, and the
\* derived sum naming an output column that no mapping defines
FormulaIndex ==
    CHOOSE i \in 1..Len(column_mapping) : column_mapping[i].type = "formula"
ForwardProfile ==
    <<column_mapping[FormulaIndex]>>
        \o SelectSeq(column_mapping, LAMBDA m : m.type # "formula")
UndefinedProfile ==
    [column_mapping EXCEPT
        ![FormulaIndex].columns = Append(@, "ZZ_Undefined")]
Profiles == {column_mapping, ForwardProfile, UndefinedProfile}

\* a run of the full layouts under each configuration
InitConfig ==
    /\ \E xk \in SeqsUpTo(Keys, MaxRows), ek \in SeqsUpTo(Keys, MaxRows),
          p \in Profiles :
           /\ xtm_df = MkTable("x", XtmFull, xk, 2)
           /\ tos_df = MkTable("t", TosFull, << <<"P", "1">> >>, 2)
           /\ edit_df = MkTable("e", EditFull, ek, 2)
           /\ profile = p
    /\ xtm_df_norm = EmptyTable /\ tos_df_norm = EmptyTable
    /\ edit_df_norm = EmptyTable /\ merged_df = EmptyTable
    /\ result_df = EmptyFrame /\ warnings = <<>> /\ pc = "decoded"
    /\ processed_data = NoData /\ all_data = <<>>
    /\ xtm_data = StoredTable(xtm_df) /\ tos_data = StoredTable(tos_df)
    /\ edit_data = StoredTable(edit_df)
    /\ validation_warnings = <<>> /\ run = 1
    /\ stored_by = [NoRun EXCEPT !.raw = 1]
    /\ NormIdle

SpecConfig == InitConfig /\ [][Next]_vars

\* the files of a click in a session: the full layouts with one row whose
\* key cells are numbers or text, and the odd XTM layouts
SessionTables ==
    { <<MkTableOf("x", XtmFull, <<xc>>, 2), MkTableOf("t", TosFull, <<tc>>, 2),
        MkTableOf("e", EditFull, <<ec>>, 2)>> :
          xc \in KeyCells, tc \in KeyCells, ec \in KeyCells }
    \cup
    { <<MkTable("x", xs, << <<"P", "1">> >>, 2),
        MkTable("t", TosFull, << <<"P", "1">> >>, 2),
        MkTable("e", EditFull, << <<"P", "1">> >>, 2)>> : xs \in XtmOddSchemas }

\* Validate & Process is clicked again and the three files decode: the
\* tables are stored in the session before validation starts; the locals of
\* the handler and of the two functions start afresh
ClickAgain ==
    /\ HandlerReturned \/ pc = "uploaded"
    /\ run < MaxRuns
    /\ \E f \in SessionTables :
           /\ xtm_df' = f[1] /\ tos_df' = f[2] /\ edit_df' = f[3]
           /\ xtm_data' = StoredTable(f[1])
           /\ tos_data' = StoredTable(f[2])
           /\ edit_data' = StoredTable(f[3])
    /\ run' = run + 1
    /\ stored_by' = [stored_by EXCEPT !.raw = run + 1]
    /\ xtm_df_norm' = EmptyTable /\ tos_df_norm' = EmptyTable
    /\ edit_df_norm' = EmptyTable /\ merged_df' = EmptyTable
    /\ result_df' = EmptyFrame /\ warnings' = <<>>
    /\ pc' = "decoded"
    /\ UNCHANGED <<profile, processed_data, all_data, validation_warnings>>
    /\ UNCHANGED normVars

\* Validate & Process is clicked again and a file fails to decode: read_csv
\* or read_excel raises before anything is stored
DecodeFails ==
    /\ HandlerReturned \/ pc = "uploaded"
    /\ run < MaxRuns
    /\ run' = run + 1
    /\ pc' = "decode_raised"
    /\ UNCHANGED <<xtm_df, tos_df, edit_df, xtm_df_norm, tos_df_norm,
                   edit_df_norm, merged_df, result_df, warnings, profile,
                   processed_data, all_data, xtm_data, tos_data, edit_data,
                   validation_warnings, stored_by>>
    /\ UNCHANGED normVars

InitSession ==
    /\ \E f \in SessionTables : Decoded(f[1], f[2], f[3])
    /\ NormIdle

NextSession == Next \/ ClickAgain \/ DecodeFails

SpecSession == InitSession /\ [][NextSession]_vars

InitNorm ==
    /\ column \in SeqsUpTo(ColumnAlphabet, MaxLen)
    /\ target_column \in SeqsUpTo(TargetAlphabet, MaxTargetLen)
    /\ norm_columns = <<>> /\ passed_target = <<>> /\ target_norm = <<>>
    /\ actual_col = None /\ stage = "input"
    /\ RunIdle

NextNorm == NormalizeColumnNames \/ LookupDirect \/ LookupViaCaller

SpecNorm == InitNorm /\ [][NextNorm]_vars

-----------------------------------------------------------------------------
(* What the properties below talk about.                                   *)

\* the configured output columns, in configured order
OutputColumns == [i \in 1..Len(column_mapping) |-> column_mapping[i].name]

DirectMappings ==
    {column_mapping[i] : i \in {j \in 1..Len(column_mapping) :
                                    column_mapping[j].type = "direct"}}

\* the direct mapping resolves in the joined table
ResolvesInMerged(m) ==
    Truthy(find_column_fuzzy(merged_df.columns, PreNormalize(m.column)))

\* the normalized copy of the source a mapping names, its file name in the
\* warnings and its required list
NormOf(source) ==
    IF source = "XTM" THEN xtm_df_norm
    ELSE IF source = "TOS" THEN tos_df_norm ELSE edit_df_norm
FileOf(source) ==
    IF source = "XTM" THEN "XTM"
    ELSE IF source = "TOS" THEN "TOS" ELSE "Edit Distance"
RequiredOf(source) ==
    IF source = "XTM" THEN SeqToSet(required_xtm_columns)
    ELSE IF source = "TOS" THEN SeqToSet(required_tos_columns)
    ELSE SeqToSet(required_edit_columns)

ResolvesInSource(m) ==
    Truthy(find_column_fuzzy(NormOf(m.source).columns, PreNormalize(m.column)))

CountWarnings(w) == Cardinality({i \in 1..Len(warnings) : warnings[i] = w})

\* the cells of an output column
OutCol(name) == result_df.data[name]

-----------------------------------------------------------------------------
(* C1  The returned table has exactly the configured output columns, in    *)
(* the configured order (the 33 columns A_Status .. AG_Field), whatever    *)
(* the three input tables hold.                                            *)
ShapeInvariant ==
    pc = "done" =>
        /\ result_df.columns = OutputColumns
        /\ Len(result_df.columns) = 33
        /\ result_df.columns[1] = "A_Status"
        /\ result_df.columns[33] = "AG_Field"
        /\ DOMAIN result_df.data = SeqToSet(OutputColumns)
        /\ \A c \in DOMAIN result_df.data : Len(result_df.data[c]) = result_df.n

\* a returned table built from inputs none of whose columns is expected,
\* with rows in the primary table
ShapeWitness ==
    /\ pc = "done"
    /\ NRows(xtm_df) > 0
    /\ \A m \in DirectMappings : ~ResolvesInMerged(m)
    /\ Len(result_df.columns) = 33

(* C2  Original statement: every row of the returned table carries the     *)
(* configured literal in each static column; A_Status is "Translated" in   *)
(* every output row.                                                       *)
StaticInEveryRow ==
    pc = "done" =>
        \A i \in 1..Len(column_mapping) :
            column_mapping[i].type = "static" =>
                \A r \in 1..result_df.n :
                    OutCol(column_mapping[i].name)[r] = Str(column_mapping[i].value)

(* C3  Original statement: the output never has fewer rows than the XTM    *)
(* table, and exactly as many when a join is skipped or nothing matches.   *)
RowsPreserved ==
    pc = "done" =>
        /\ result_df.n >= NRows(xtm_df)
        /\ merged_df = xtm_df_norm => result_df.n = NRows(xtm_df)

(* C4  Original statement: an unresolved direct column is empty in every   *)
(* output row, and if it is listed as required for its source the          *)
(* validator emits exactly one warning for it.                             *)
UnresolvedEmptyAndWarned ==
    pc = "done" =>
        \A m \in DirectMappings :
            ~ResolvesInMerged(m) =>
                /\ \A r \in 1..result_df.n : OutCol(m.name)[r] = EmptyStr
                /\ m.column \in RequiredOf(m.source) =>
                       CountWarnings(MissingColumn(FileOf(m.source), m.column)) = 1

(* C4  Amended: an unresolved direct column is empty in every output row;  *)
(* if it is listed as required for its source, the validator emits exactly *)
(* one missing-column warning for it when the column does not resolve in   *)
(* that source table itself, and none when it does.                        *)
UnresolvedEmptyWarnedIfAbsent ==
    pc = "done" =>
        \A m \in DirectMappings :
            ~ResolvesInMerged(m) =>
                /\ \A r \in 1..result_df.n : OutCol(m.name)[r] = EmptyStr
                /\ m.column \in RequiredOf(m.source) =>
                       CountWarnings(MissingColumn(FileOf(m.source), m.column))
                           = (IF ResolvesInSource(m) THEN 0 ELSE 1)

\* a returned table with rows in which a required column is absent from its
\* source (one warning) and another is present in its source but unresolved
\* in the joined table (no warning)
UnresolvedWitness ==
    /\ pc = "done"
    /\ result_df.n > 0
    /\ \E m \in DirectMappings :
          /\ ~ResolvesInMerged(m) /\ ~ResolvesInSource(m)
          /\ m.column \in RequiredOf(m.source)
          /\ CountWarnings(MissingColumn(FileOf(m.source), m.column)) = 1
    /\ \E m \in DirectMappings :
          /\ ~ResolvesInMerged(m) /\ ResolvesInSource(m)
          /\ m.column \in RequiredOf(m.source)

-----------------------------------------------------------------------------
(* The normalization the specification describes: lower-case, strip, and   *)
(* every run of whitespace replaced by a single underscore.  Two labels    *)
(* with the same image differ only in case, outer whitespace and the       *)
(* length of their whitespace runs.                                        *)

RECURSIVE DropLeadingWhitespace(_)
DropLeadingWhitespace(s) ==
    IF s # <<>> /\ Head(s) \in Whitespace
    THEN DropLeadingWhitespace(Tail(s)) ELSE s

RECURSIVE CollapseRuns(_)
CollapseRuns(s) ==
    IF s = <<>> THEN <<>>
    ELSE IF Head(s) \in Whitespace
    THEN <<"_">> \o CollapseRuns(DropLeadingWhitespace(s))
    ELSE <<Head(s)>> \o CollapseRuns(Tail(s))

RunInsensitive(s) == CollapseRuns(Strip(Lower(s)))

HasOuterWhitespace(s) ==
    s # <<>> /\ (s[1] \in Whitespace \/ s[Len(s)] \in Whitespace)

(* C5  Original statement: a desired label resolves to any column name     *)
(* that differs from it only in case, in leading or trailing whitespace    *)
(* and in the length of internal whitespace runs.                          *)
ResolutionInsensitive ==
    (/\ stage \in {"resolved", "resolved_via_caller"}
     /\ RunInsensitive(target_column) = RunInsensitive(column))
        => (actual_col.found /\ actual_col.col = norm_columns[1])

(* C6  Original statement: normalizing twice gives what normalizing once   *)
(* gives, also when the first pass is the callers' lower-and-replace and   *)
(* the second the lookup's own normalization.                              *)
NormalizeTwiceAsOnce ==
    /\ stage \in {"normalized", "resolved", "resolved_via_caller"} =>
           NormalizeLabel(norm_columns[1]) = norm_columns[1]
    /\ stage = "resolved_via_caller" => target_norm = NormalizeLabel(target_column)

-----------------------------------------------------------------------------
(* The join steps as the properties see them.                              *)

\* the key columns of step 1 as resolved in the normalized tables
XtmKeyCol  == find_column_fuzzy(xtm_df_norm.columns,
                                PreNormalize(join_keys.xtm_tos.xtm_key))
TosKeyCol  == find_column_fuzzy(tos_df_norm.columns,
                                PreNormalize(join_keys.xtm_tos.tos_key))

\* the accumulated table between the two steps
AfterTOS ==
    JoinStep(xtm_df_norm, tos_df_norm, join_keys.xtm_tos.xtm_key,
             join_keys.xtm_tos.tos_key, SuffixXtm, SuffixTos)

\* the key columns of step 2 as resolved in the accumulated and EDIT tables
AccKeyCol  == find_column_fuzzy(AfterTOS.columns,
                                PreNormalize(join_keys.xtm_edit.xtm_key))
EditKeyCol == find_column_fuzzy(edit_df_norm.columns,
                                PreNormalize(join_keys.xtm_edit.edit_key))

SkippedTOS  == ~(Truthy(XtmKeyCol) /\ Truthy(TosKeyCol))
SkippedEDIT == ~(Truthy(AccKeyCol) /\ Truthy(EditKeyCol))

HasWarning(w) == \E i \in 1..Len(warnings) : warnings[i] = w

\* the secondary columns that take part in the naming of the joined table:
\* all but a key column named like the accumulated table's key
Joining(sec, acc_key, sec_key) ==
    IF acc_key.col = sec_key.col
    THEN SeqToSet(sec.columns) \ {sec_key.col}
    ELSE SeqToSet(sec.columns)

Resolvable(df, name) ==
    LET hit == find_column_fuzzy(df.columns, name)
    IN  Truthy(hit) /\ hit.col = name

Occurrences(df, name) ==
    Cardinality({i \in 1..Len(df.columns) : df.columns[i] = name})

(* C7  Original statement: in every row of every returned table the        *)
(* derived-sum column Q_Total_Words is a number, the numeric sum of the    *)
(* row's M, N, O and P output values, a non-numeric, empty or missing      *)
(* value counting 0.                                                       *)
DerivedSumNumeric ==
    pc = "done" =>
        \A i \in 1..Len(column_mapping) :
            column_mapping[i].type = "formula" =>
                \A r \in 1..result_df.n :
                    LET addend(c) == FillNa(ToNumeric(OutCol(c)[r]), Num(0)).n
                        refs == column_mapping[i].columns
                        RECURSIVE total(_)
                        total(k) == IF k = 0 THEN 0
                                    ELSE total(k - 1) + addend(refs[k])
                    IN  OutCol(column_mapping[i].name)[r] = Num(total(Len(refs)))

(* C8  Original statement: a join step whose key column fails to resolve   *)
(* on either side leaves the accumulated table unchanged, the run still    *)
(* reaches the projection, and a join-key-not-found diagnostic exists for  *)
(* the unresolved key of that step.                                        *)
SkippedJoinUnchangedAndReported ==
    /\ (pc = "joined_tos" /\ SkippedTOS) =>
           /\ merged_df = xtm_df_norm
           /\ ~Truthy(XtmKeyCol) =>
                  HasWarning(JoinKeyNotFound("XTM", join_keys.xtm_tos.xtm_key))
           /\ ~Truthy(TosKeyCol) =>
                  HasWarning(JoinKeyNotFound("TOS", join_keys.xtm_tos.tos_key))
    /\ (pc = "joined_edit" /\ SkippedEDIT) =>
           /\ merged_df = AfterTOS
           /\ ~Truthy(AccKeyCol) =>
                  HasWarning(JoinKeyNotFound("XTM", join_keys.xtm_edit.xtm_key))
           /\ ~Truthy(EditKeyCol) =>
                  HasWarning(JoinKeyNotFound("Edit Distance",
                                             join_keys.xtm_edit.edit_key))
    /\ (pc = "done" /\ (SkippedTOS \/ SkippedEDIT)) =>
           result_df.columns = OutputColumns

(* C9  Original statement: once the validator has run, every join key of   *)
(* both configured pairs (xtm_tos and xtm_edit) that fails to resolve in   *)
(* its table has a "rows may not align properly" warning.                  *)
EveryJoinKeyPairWarned ==
    pc # "decoded" =>
        LET xtm_norm  == normalize_column_names(xtm_df)
            tos_norm  == normalize_column_names(tos_df)
            edit_norm == normalize_column_names(edit_df)
            missing(df, key) ==
                ~Truthy(find_column_fuzzy(df.columns, PreNormalize(key)))
        IN  /\ missing(xtm_norm, join_keys.xtm_tos.xtm_key) =>
                   HasWarning(JoinKeyNotFound("XTM", join_keys.xtm_tos.xtm_key))
            /\ missing(tos_norm, join_keys.xtm_tos.tos_key) =>
                   HasWarning(JoinKeyNotFound("TOS", join_keys.xtm_tos.tos_key))
            /\ missing(xtm_norm, join_keys.xtm_edit.xtm_key) =>
                   HasWarning(JoinKeyNotFound("XTM", join_keys.xtm_edit.xtm_key))
            /\ missing(edit_norm, join_keys.xtm_edit.edit_key) =>
                   HasWarning(JoinKeyNotFound("Edit Distance",
                                              join_keys.xtm_edit.edit_key))

(* C10  Original statement: in both join steps, a non-key column name      *)
(* found in the accumulated and in the secondary table survives twice      *)
(* after the join, each under the name suffixed with its source tag, both  *)
(* resolvable and distinct; the other secondary columns keep their names.  *)
CollisionsSuffixedBothSides ==
    /\ (pc = "joined_tos" /\ ~SkippedTOS) =>
           LET sec == Joining(tos_df_norm, XtmKeyCol, TosKeyCol)
           IN  \A c \in sec :
                   IF c \in SeqToSet(xtm_df_norm.columns)
                   THEN /\ Resolvable(merged_df, c \o SuffixXtm)
                        /\ Resolvable(merged_df, c \o SuffixTos)
                        /\ Occurrences(merged_df, c) = 0
                   ELSE Occurrences(merged_df, c) = 1
    /\ (pc = "joined_edit" /\ ~SkippedEDIT) =>
           LET sec == Joining(edit_df_norm, AccKeyCol, EditKeyCol)
           IN  \A c \in sec :
                   IF c \in SeqToSet(AfterTOS.columns)
                   THEN /\ Resolvable(merged_df, c \o SuffixXtm)
                        /\ Resolvable(merged_df, c \o SuffixEdit)
                        /\ Occurrences(merged_df, c) = 0
                   ELSE Occurrences(merged_df, c) = 1

-----------------------------------------------------------------------------
\* the two cells are a number and the text form of the same number
NumberAndItsText(a, b) ==
    \/ a.k = "num" /\ b.k = "str" /\ b.s = DigitsOf(a.n)
    \/ b.k = "num" /\ a.k = "str" /\ a.s = DigitsOf(b.n)

\* some primary key and some secondary key are a number and its text form
KeyTypeMismatch(primary, secondary, pkey, skey) ==
    /\ Truthy(pkey) /\ Truthy(skey)
    /\ \E r \in 1..NRows(primary), j \in 1..NRows(secondary) :
           NumberAndItsText(Series(primary, pkey.col)[r],
                            Series(secondary, skey.col)[j])

(* C11  Original statement: a primary row whose key is a number never      *)
(* joins a secondary row whose key is the text form of that number (and    *)
(* vice versa): the row keeps empty secondary cells, and the merge returns *)
(* the complete fixed-shape table without raising.                         *)
KeyTypesNeverJoinNorRaise ==
    (/\ pc \in {"joined_tos", "joined_edit", "projected", "done", "merge_raised"}
     /\ \/ KeyTypeMismatch(xtm_df_norm, tos_df_norm, XtmKeyCol, TosKeyCol)
        \/ KeyTypeMismatch(xtm_df_norm, edit_df_norm, XtmKeyCol, EditKeyCol)) =>
        /\ pc # "merge_raised"
        /\ (pc = "joined_tos" /\ ~SkippedTOS) =>
               \A r \in 1..NRows(merged_df) :
                   Series(merged_df, TosKeyCol.col)[r]
                       \in {NaN, Series(merged_df, XtmKeyCol.col)[r]}
        /\ pc = "done" => result_df.columns = OutputColumns

-----------------------------------------------------------------------------
(* A join step seen from its result: which accumulated row and which       *)
(* secondary row each joined row was made of.                              *)

RowsDistinct(rows) ==
    \A a, b \in 1..Len(rows) : rows[a] = rows[b] => a = b

\* joined is a stable left join of acc and sec on the given key columns
StableLeftJoin(acc, sec, acc_key, sec_key, joined) ==
    LET li      == ColIndex(acc, acc_key)
        ri      == ColIndex(sec, sec_key)
        width   == Len(acc.columns)
        kept    == SelectIdx(Len(sec.columns), 1,
                       {j \in 1..Len(sec.columns) :
                           ~(acc_key = sec_key /\ j = ri)})
        part(j) == [y \in 1..Len(kept) |-> sec.rows[j][kept[y]]]
        left(a)  == SubSeq(joined.rows[a], 1, width)
        right(a) == SubSeq(joined.rows[a], width + 1, Len(joined.rows[a]))
        unmatched(a) == \A y \in 1..Len(right(a)) : right(a)[y] = NaN
        matches(r) == {j \in 1..NRows(sec) : sec.rows[j][ri] = acc.rows[r][li]}
        prim(a) == CHOOSE r \in 1..NRows(acc) : left(a) = acc.rows[r]
        scnd(a) == IF unmatched(a) THEN 0
                   ELSE CHOOSE j \in 1..NRows(sec) : right(a) = part(j)
        rows == 1..NRows(joined)
    IN  \* every joined row is one accumulated row with one of its matches,
        \* or with missing values when it has none
        /\ \A a \in rows :
               /\ \E r \in 1..NRows(acc) : left(a) = acc.rows[r]
               /\ Len(right(a)) = Len(kept)
               /\ IF matches(prim(a)) = {} THEN unmatched(a)
                  ELSE \E j \in matches(prim(a)) : right(a) = part(j)
        \* a row with k >= 1 matches yields k rows, a row without yields one
        /\ \A r \in 1..NRows(acc) :
               Cardinality({a \in rows : prim(a) = r})
                   = IF matches(r) = {} THEN 1 ELSE Cardinality(matches(r))
        \* accumulated order first, secondary order within one accumulated row
        /\ \A a, b \in rows :
               a < b => \/ prim(a) < prim(b)
                        \/ prim(a) = prim(b) /\ scnd(a) < scnd(b)

\* the rows of the two tables of a join can be told apart
Distinguishable(acc, sec, acc_key, sec_key) ==
    /\ RowsDistinct(acc.rows)
    /\ RowsDistinct([j \in 1..NRows(sec) |->
           [y \in {x \in 1..Len(sec.columns) :
                      ~(acc_key = sec_key /\ sec.columns[x] = sec_key)} |->
               sec.rows[j][y]]])
    /\ \A j \in 1..NRows(sec) : \E y \in 1..Len(sec.columns) :
           sec.columns[y] # sec_key /\ sec.rows[j][y] # NaN

(* C12  Both join steps are stable left joins: an accumulated row with     *)
(* k >= 1 matching secondary rows yields exactly k joined rows (one row    *)
(* without a match yields one), in accumulated-table order and, within     *)
(* one accumulated row, in secondary-table order; the returned table has   *)
(* the joined table's rows in the same order, each resolved direct-mapped  *)
(* column carrying the joined table's values.                              *)
FanOutStable ==
    /\ (/\ pc = "joined_tos" /\ ~SkippedTOS
        /\ Distinguishable(xtm_df_norm, tos_df_norm, XtmKeyCol.col, TosKeyCol.col)) =>
           StableLeftJoin(xtm_df_norm, tos_df_norm, XtmKeyCol.col, TosKeyCol.col,
                          merged_df)
    /\ (/\ pc = "joined_edit" /\ ~SkippedEDIT
        /\ Distinguishable(AfterTOS, edit_df_norm, AccKeyCol.col, EditKeyCol.col)) =>
           StableLeftJoin(AfterTOS, edit_df_norm, AccKeyCol.col, EditKeyCol.col,
                          merged_df)
    /\ (pc = "done" /\ \E m \in DirectMappings : ResolvesInMerged(m)) =>
           /\ result_df.n = NRows(merged_df)
           /\ \A m \in DirectMappings :
                  ResolvesInMerged(m) =>
                      \A r \in 1..result_df.n :
                          OutCol(m.name)[r] =
                              FillNa(Series(merged_df,
                                            find_column_fuzzy(merged_df.columns,
                                                PreNormalize(m.column)).col)[r],
                                     EmptyStr)

\* a returned table of three rows made of two primary rows, the first of
\* which matched two TOS rows
FanOutWitness ==
    /\ pc = "done"
    /\ NRows(xtm_df) = 2 /\ NRows(tos_df) = 2 /\ NRows(edit_df) = 0
    /\ ~SkippedTOS
    /\ Series(xtm_df_norm, XtmKeyCol.col) = <<Str(<<"P", "1">>), Str(<<"P", "2">>)>>
    /\ Series(tos_df_norm, TosKeyCol.col) = <<Str(<<"P", "1">>), Str(<<"P", "1">>)>>
    /\ result_df.n = 3
    /\ OutCol("B_Project_ID") =
           <<Str(<<"P", "1">>), Str(<<"P", "1">>), Str(<<"P", "2">>)>>
    /\ OutCol("J_Service_Type")[1] # OutCol("J_Service_Type")[2]
    /\ OutCol("J_Service_Type")[3] = EmptyStr

-----------------------------------------------------------------------------
AllText(df) == \A i \in 1..Len(df.columns) : IsText(df.columns[i])

IsWarning(w) ==
    /\ DOMAIN w = {"kind", "file", "col", "a", "b"}
    /\ w.kind \in {"missing_column", "empty", "row_mismatch", "join_key"}
    /\ w.file \in {"XTM", "TOS", "Edit Distance"}

(* C13  Original statement: validate_indeed_files never raises and always  *)
(* returns a list of warnings for any three readable tables, also tables   *)
(* with no row, with no column, or with column labels that are not text.   *)
ValidateNeverRaises ==
    /\ pc # "validate_raised"
    /\ pc = "validated" => \A i \in 1..Len(warnings) : IsWarning(warnings[i])

\* a direct mapping whose label is carried by two columns of the joined table
RefersToTie(m) ==
    LET actual == find_column_fuzzy(merged_df.columns, PreNormalize(m.column))
    IN  Truthy(actual) /\ LabelCount(merged_df, actual.col) > 1

(* C20  Original statement: when two columns of one input table normalize  *)
(* to the same label, both functions return normally and a direct-mapped   *)
(* output column referring to that label carries the values of the first   *)
(* such column.                                                            *)
TiesResolveToFirst ==
    (/\ AllText(xtm_df) /\ AllText(tos_df) /\ AllText(edit_df)
     /\ pc \in {"merge_raised", "done"}
     /\ \E m \in DirectMappings : RefersToTie(m)) =>
        /\ pc = "done"
        /\ \A m \in DirectMappings :
               RefersToTie(m) =>
                   \A r \in 1..result_df.n :
                       OutCol(m.name)[r] =
                           FillNa(Series(merged_df,
                                         find_column_fuzzy(merged_df.columns,
                                             PreNormalize(m.column)).col)[r],
                                  EmptyStr)

-----------------------------------------------------------------------------
\* the required columns of a source that do not resolve in the decoded table
Unresolved(df, required) ==
    {i \in 1..Len(required) :
        ~Truthy(find_column_fuzzy(normalize_column_names(df).columns,
                                  PreNormalize(required[i])))}

\* validate_indeed_files has just returned its list
ValidatorReturned == pc = "validated"

-----------------------------------------------------------------------------
\* a derived sum of the configuration names an output column that is not
\* built before it: defined later, or not defined at all
BadReference(p) ==
    \E i \in 1..Len(p) :
        /\ p[i].type = "formula"
        /\ \E c \in SeqToSet(p[i].columns) :
               \A j \in 1..(i - 1) : p[j].name # c

DuplicateNames(p) ==
    \E i, j \in 1..Len(p) : i # j /\ p[i].name = p[j].name

(* C15  Original statement: a configuration whose derived sum refers to    *)
(* an undefined or not yet built output column, or in which two output     *)
(* columns share a name, is rejected: no output table is computed from it. *)
ConfigErrorsRejected ==
    (BadReference(profile) \/ DuplicateNames(profile)) =>
        pc \notin {"projected", "done", "uploaded"}

-----------------------------------------------------------------------------
\* the cells of the returned table
ReturnedCells ==
    { result_df.data[c][r] : c \in DOMAIN result_df.data, r \in 1..result_df.n }

\* the joined table holds a missing value in row r that a direct mapping
\* copies into the returned table
MissingCopied(r) ==
    \E i \in 1..Len(profile) :
        /\ profile[i].type = "direct"
        /\ LET src == find_column_fuzzy(merged_df.columns, profile[i].column)
           IN  /\ Truthy(src)
               /\ Series(merged_df, src.col)[r] = NaN
               /\ result_df.data[profile[i].name][r] = EmptyStr

(* C16  No cell of the table returned by merge_indeed_files is NaN: every  *)
(* missing value is the empty string in the returned table.                *)
NoNaNReturned ==
    pc = "done" => \A cell \in ReturnedCells : cell.k # "nan"

\* a returned table with a row whose secondary columns found no match
NoNaNWitness ==
    /\ pc = "done"
    /\ result_df.n > 0
    /\ \E r \in 1..result_df.n : MissingCopied(r)

-----------------------------------------------------------------------------
(* C17  merge_indeed_files and validate_indeed_files leave the three input *)
(* tables unchanged: no step of either call changes the column labels, the *)
(* rows or the row order of a table the caller passed in.                  *)
InputsUnchanged ==
    [][xtm_df' = xtm_df /\ tos_df' = tos_df /\ edit_df' = edit_df]_vars

\* both calls have returned, and normalization gave the derived XTM table
\* labels that differ from the labels of the input
InputsWitness ==
    /\ pc = "done"
    /\ NRows(xtm_df) > 0
    /\ xtm_df_norm.columns # xtm_df.columns
    /\ edit_df_norm.columns # edit_df.columns

-----------------------------------------------------------------------------
\* the handler of Validate & Process is over: it stored a result, or one of
\* the two calls raised and the except clause reported the error
HandlerOver == pc \in {"done", "uploaded", "validate_raised", "merge_raised"}

(* C18  Original statement: validation never blocks processing: once the   *)
(* three files are decoded, merge_indeed_files is invoked and its result   *)
(* is stored, whatever validate_indeed_files reported.                     *)
ValidationNeverBlocks ==
    HandlerOver =>
        /\ processed_data.stored
        /\ processed_data.frame = result_df

-----------------------------------------------------------------------------
\* the output columns that the configuration derives as sums
FormulaNames ==
    { profile[i].name : i \in {j \in 1..Len(profile) : profile[j].type = "formula"} }

\* position of an output column in the uploaded header row
HeaderIndex(name) == CHOOSE j \in 1..Len(all_data[1]) : all_data[1][j] = name

(* C19  Original statement: a derived-sum cell that is a number in the     *)
(* merged table is handed to the spreadsheet write as a number, not text.  *)
NumbersStayNumbers ==
    pc = "uploaded" =>
        \A name \in FormulaNames, r \in 1..processed_data.frame.n :
            processed_data.frame.data[name][r].k = "num" =>
                all_data[r + 1][HeaderIndex(name)].k = "num"

-----------------------------------------------------------------------------
\* the keys of a column_mapping, in definition order
MappingNames(p) == [i \in 1..Len(p) |-> p[i].name]

\* the configuration is well-formed: its keys, in definition order, are the
\* list of get_indeed_column_names, 33 names, no name twice, and every
\* derived sum refers only to output columns defined before it
WellFormed(p) ==
    /\ MappingNames(p) = get_indeed_column_names
    /\ Len(p) = 33
    /\ ~DuplicateNames(p)
    /\ ~BadReference(p)

(* C24  The shipped configuration is well-formed: the keys of the          *)
(* Indeed_Standard column_mapping, in definition order, are exactly the    *)
(* list returned by get_indeed_column_names (33 unique names), and         *)
(* Q_Total_Words references only output columns that appear earlier.       *)
ShippedConfigWellFormed ==
    /\ profile = column_mapping
    /\ WellFormed(profile)

\* the projection has run under the shipped configuration and Q_Total_Words
\* was summed from an addend built before it
ShippedConfigWitness ==
    /\ pc = "projected"
    /\ profile = column_mapping
    /\ result_df.n > 0
    /\ \E r \in 1..result_df.n :
           /\ result_df.data["M_No_Match"][r].k = "num"
           /\ result_df.data["M_No_Match"][r].n > 0
           /\ result_df.data["Q_Total_Words"][r].k = "num"
           /\ result_df.data["Q_Total_Words"][r].n >= result_df.data["M_No_Match"][r].n

-----------------------------------------------------------------------------
\* the letter that the text cells of a source table start with
TagOf(source) ==
    IF source = "XTM" THEN "x" ELSE IF source = "TOS" THEN "t" ELSE "e"

\* the cell is a text cell of an input table: it names its table
Tagged(cell) ==
    cell.k = "str" /\ Len(cell.s) = 3 /\ cell.s[1] \in {"x", "t", "e"}

\* each text cell of a direct output column comes from the table the
\* mapping names
DrawnFromNamedSource ==
    \A m \in DirectMappings, r \in 1..result_df.n :
        Tagged(OutCol(m.name)[r]) => OutCol(m.name)[r].s[1] = TagOf(m.source)

\* some primary row has a key that a row of TOS carries
SomeRowJoinsTOS ==
    \E r \in 1..NRows(xtm_df_norm), j \in 1..NRows(tos_df_norm) :
        Series(xtm_df_norm, XtmKeyCol.col)[r] = Series(tos_df_norm, TosKeyCol.col)[j]

\* a TOS mapping whose column TOS contains is populated once the join to
\* TOS was performed and matched a row
PopulatedFromTOS ==
    \A m \in DirectMappings :
        (/\ m.source = "TOS"
         /\ ResolvesInSource(m)
         /\ PreNormalize(m.column) # TosKeyCol.col
         /\ SomeRowJoinsTOS) =>
            \E r \in 1..result_df.n : OutCol(m.name)[r] # EmptyStr

(* C21  Original statement: a direct mapping draws its values from the     *)
(* source table it names, never from a same-named column of another table, *)
(* and when that table contains the column and was joined, the output      *)
(* column is populated even if another table has a column of that name.    *)
DirectFromNamedSource ==
    pc = "done" =>
        /\ DrawnFromNamedSource
        /\ ~SkippedTOS => PopulatedFromTOS

-----------------------------------------------------------------------------
\* the direct mappings whose source column is listed as required
RequiredMappings ==
    {m \in DirectMappings : m.column \in RequiredOf(m.source)}

\* the validator warned that the source may be missing the mapping's column
WarnedMissing(m) == HasWarning(MissingColumn(FileOf(m.source), m.column))

\* the mapping's output column is empty in every row
EmptyInEveryRow(m) == \A r \in 1..result_df.n : OutCol(m.name)[r] = EmptyStr

(* C22  Original statement: for the same three input tables, the validator *)
(* warns that a required column of a source may be missing if and only if  *)
(* the output column mapped from that source column is empty in every row  *)
(* of the returned table (a table with at least one row).                  *)
ValidatorProjectorAgree ==
    (pc = "done" /\ result_df.n > 0) =>
        \A m \in RequiredMappings : WarnedMissing(m) <=> EmptyInEveryRow(m)

-----------------------------------------------------------------------------
(* C23  Original statement: after any sequence of Validate & Process runs, *)
(* the session's processed_data, raw tables and validation_warnings all    *)
(* come from the same run, so that an export never publishes a merged      *)
(* report together with raw tables or warnings of a different run.         *)
SessionFromOneRun ==
    ((HandlerReturned \/ pc = "uploaded") /\ processed_data.stored) =>
        /\ stored_by.raw = stored_by.processed_data
        /\ stored_by.validation_warnings = stored_by.processed_data

=============================================================================
